---- MODULE Spec2Model ----
(***************************************************************************)
(* Verification model of the interactive particle scene:                   *)
(*   App            (mode toggle, wish collection and its cleanup timers)  *)
(*   WishParticles  (per-frame flight of a wish cluster)                   *)
(*   MorphingTree   (text rasterizer, particle generator, frame animator)  *)
(*                                                                         *)
(* Numbers.  Real quantities are fixed-point integers:                     *)
(*   - wall-clock and render-clock times are in milliseconds;              *)
(*   - flight progress t and every other unitless factor is in             *)
(*     thousandths (One == 1000 stands for 1.0);                           *)
(*   - world coordinates are in thousandths of a world unit;               *)
(*   - angles are in milliradians.                                         *)
(* Points are triples <<x, y, z>>.                                         *)
(***************************************************************************)
EXTENDS Integers, Sequences, FiniteSets, TLC

\* ------------------------------------------------------------------------
\* Bounds of the model
\* ------------------------------------------------------------------------

\* Date.now() at the moment the render clock was started (page load).
\* Any real value is about 1.7e12; what matters is that it is far from 0.
ClockStartEpochMs == 4000

\* Wall-clock time advances in steps of TickMs, for at most MaxTicks steps.
TickMs == 500
MaxTicks == 9

\* Number of handleSendWish calls explored.
MaxCalls == 3

\* ------------------------------------------------------------------------
\* Fixed-point helpers (THREE.MathUtils)
\* ------------------------------------------------------------------------

One == 1000

\* THREE.MathUtils.clamp(value, min, max) = Math.max(min, Math.min(max, value))
clamp(value, lo, hi) ==
  LET m == IF value < hi THEN value ELSE hi
  IN IF m > lo THEN m ELSE lo

\* Fixed-point product: (a/One) * (b/One), in thousandths.
mul(a, b) == (a * b) \div One

\* ------------------------------------------------------------------------
\* State
\* ------------------------------------------------------------------------

VARIABLES
  treeState,   \* App: useState<TreeState>
  wishes,      \* App: useState<Wish[]>; each wish also carries the number of
               \* the handleSendWish call that made it (call), for the claims
  timers,      \* pending setTimeout callbacks of handleSendWish
  calls,       \* number of handleSendWish calls so far
  wallMs,      \* Date.now()
  flight,      \* per wish, what its WishCluster wrote in the last frame
  genPc,       \* MorphingTree: how far its construction has got
  total,       \* MorphingTree: TOTAL_PARTICLES, the count passed to the rasterizer
  text,        \* the text passed to the rasterizer, as its lines (text.split)
  textPositions, \* the array generateTextPositions returned
  raster,      \* which return of generateTextPositions was taken
  particles,   \* MorphingTree: particles (useMemo)
  indices,     \* MorphingTree: shardIndices, dustIndices, flakeIndices, blueIndices
  meshes,      \* the instance matrices of the four InstancedMesh objects
  cameraDist,  \* state.camera.position.length()
  starGroup,   \* FivePointedStar: rotation.y and scale of its group
  ribbonGroup, \* RibbonWithStars: rotation.y and scale of its group
  ornaments,   \* RibbonWithStars: starPositions (useMemo)
  ornamentMesh, \* RibbonWithStars: instance matrices and colours of starsRef
  frame,       \* what the frame callbacks of the last frame read and computed
  dragStartRef, \* App: dragStartRef.current, the Date.now() of the last pointer-down
  pointer,     \* the press in progress: where it landed and which events were dispatched
  pass         \* MorphingTree: the position of its frame callback inside animateMesh

appVars == <<treeState, wishes, timers, calls, wallMs, flight>>

genVars == <<genPc, total, text, textPositions, raster, particles, indices, meshes>>

animVars == <<cameraDist, starGroup, ribbonGroup, ornaments, ornamentMesh, frame>>

genVars_butMeshes == <<genPc, total, text, textPositions, raster, particles, indices>>

ptrVars == <<dragStartRef, pointer>>

passVars == <<pass>>

vars == <<appVars, genVars, animVars, ptrVars, passVars>>

\* ------------------------------------------------------------------------
\* types.ts
\* ------------------------------------------------------------------------

SCATTERED == "SCATTERED"
TREE_SHAPE == "TREE_SHAPE"
TEXT_SHAPE == "TEXT_SHAPE"
TreeState == {SCATTERED, TREE_SHAPE, TEXT_SHAPE}

\* ------------------------------------------------------------------------
\* WishParticles.tsx: WishCluster
\* ------------------------------------------------------------------------

\* Arc path configuration, in thousandths of a world unit.
startPos == <<0, -10000, 5000>>
endPos == <<0, 6500, 0>>
controlPos == <<10000, 0, 10000>>

\* Flight duration (the divisor 3.0 seconds), in milliseconds.
FlightMs == 3000

\* flightT with the upper clamp forgotten
flightT_noUpperClamp(now, startTime) ==
  LET progress == ((now - startTime) * One) \div FlightMs
  IN IF progress > 0 THEN progress ELSE 0

\* progress = (now - wish.startTime) / 3.0; t = clamp(progress, 0, 1)
flightT(now, startTime) ==
  LET progress == ((now - startTime) * One) \div FlightMs
  IN clamp(progress, 0, One)

\* One coordinate of the quadratic Bezier curve, as the frame callback
\* computes it: (1-t)*(1-t)*start + 2*(1-t)*t*control + t*t*end.
bezier1(t, k) ==
  mul(mul(One - t, One - t), startPos[k])
    + mul(mul(2 * (One - t), t), controlPos[k])
    + mul(mul(t, t), endPos[k])

bezier(t) == <<bezier1(t, 1), bezier1(t, 2), bezier1(t, 3)>>

\* scale = t < 0.1 ? t * 10 : t > 0.9 ? (1 - t) * 10 : 1
flightScale_noFadeOut(t) == IF t < 100 THEN t * 10 ELSE One

flightScale(t) ==
  IF t < 100 THEN t * 10
  ELSE IF t > 900 THEN (One - t) * 10
  ELSE One

\* The state a WishCluster is mounted with: the <points> object sits at the
\* origin with scale 1 until the first frame callback runs.
Mounted == [rendered |-> FALSE, at |-> 0, t |-> 0, pos |-> <<0, 0, 0>>, scale |-> One]

\* The whole frame callback of one WishCluster; now is the render clock's
\* elapsed time (ms).  The wall-clock time of the frame is kept in "at".
WishClusterFrame(now, wish, wall) ==
  LET t == flightT(now, wish.startTime)
  IN [rendered |-> TRUE, at |-> wall, t |-> t, pos |-> bezier(t), scale |-> flightScale(t)]

\* ------------------------------------------------------------------------
\* App.tsx
\* ------------------------------------------------------------------------

\* Math.random().toString(36).substr(2, 9): a string drawn at random.
WishIds == {"k3f9", "x07q"}

\* The delay of the cleanup timer, in milliseconds.
CleanupMs == 3500

\* state.clock.getElapsedTime(): time since the render clock was started.
ElapsedMs == wallMs - ClockStartEpochMs

\* toggled cycling through all three members of the enum
toggled_cycle(prev) ==
  IF prev = TREE_SHAPE THEN TEXT_SHAPE
  ELSE IF prev = TEXT_SHAPE THEN SCATTERED
  ELSE TREE_SHAPE

\* setTreeState updater of toggleState
toggled(prev) == IF prev = TREE_SHAPE THEN TEXT_SHAPE ELSE TREE_SHAPE

toggleState ==
  /\ treeState' = toggled(treeState)
  /\ UNCHANGED <<wishes, timers, calls, wallMs, flight, genVars, animVars, ptrVars, passVars>>

\* prev.filter(w => w.id !== id), applied to the wishes and, because a
\* WishCluster is unmounted with its wish, to the clusters
RECURSIVE keepOthers(_, _, _)
keepOthers(ws, xs, id) ==
  IF ws = <<>> THEN <<>>
  ELSE IF Head(ws).id # id
       THEN <<Head(xs)>> \o keepOthers(Tail(ws), Tail(xs), id)
       ELSE keepOthers(Tail(ws), Tail(xs), id)

handleSendWish(id) ==
  /\ calls < MaxCalls
  /\ LET newWish == [id |-> id, startTime |-> wallMs, call |-> calls + 1]
     IN /\ wishes' = Append(wishes, newWish)
        /\ flight' = Append(flight, Mounted)
        /\ timers' = timers \cup {[id |-> id, call |-> calls + 1, due |-> wallMs + CleanupMs]}
  /\ calls' = calls + 1
  /\ UNCHANGED <<treeState, wallMs, genVars, animVars, ptrVars, passVars>>

\* The setTimeout callback of one handleSendWish call
CleanupTimer(tm) ==
  /\ tm \in timers
  /\ wallMs >= tm.due
  /\ wishes' = keepOthers(wishes, wishes, tm.id)
  /\ flight' = keepOthers(wishes, flight, tm.id)
  /\ timers' = timers \ {tm}
  /\ UNCHANGED <<treeState, calls, wallMs, genVars, animVars, ptrVars, passVars>>

\* Time passes; a timer that is due runs before the clock moves on.
Tick ==
  /\ wallMs < ClockStartEpochMs + MaxTicks * TickMs
  /\ \A tm \in timers : tm.due > wallMs
  /\ wallMs' = wallMs + TickMs
  /\ UNCHANGED <<treeState, wishes, timers, calls, flight, genVars, animVars, ptrVars, passVars>>

\* One rendered frame of WishParticles: the frame callback of every cluster
WishFrame ==
  /\ wishes # <<>>
  /\ flight' = [i \in DOMAIN wishes |-> WishClusterFrame(ElapsedMs, wishes[i], wallMs)]
  /\ UNCHANGED <<treeState, wishes, timers, calls, wallMs, genVars, animVars, ptrVars, passVars>>

\* ------------------------------------------------------------------------
\* App.tsx and Overlay.tsx: tap-to-toggle on the root div, and the controls
\* of the Overlay that sit inside it
\* ------------------------------------------------------------------------

\* Presses explored, and how long a press is held
MaxPresses == 2
HoldStepMs == 50
MaxHoldSteps == 5

PressMs == {k * HoldStepMs : k \in 0..MaxHoldSteps}

\* if (Date.now() - dragStartRef.current < 200)
TapMs == 200

\* The elements a press can land on: the element the browser reports as
\* e.target, its tagName, and the control it is (inside of).  The text and
\* the frame of the toggle button are a <span> and a <div> nested in it; the
\* headings of the Overlay take no pointer events, a press on them lands
\* on the canvas.
PressTargets ==
  {[el |-> "canvas", tagName |-> "CANVAS", control |-> "none"],
   [el |-> "wish form", tagName |-> "FORM", control |-> "none"],
   [el |-> "wish input", tagName |-> "INPUT", control |-> "input"],
   [el |-> "Send button", tagName |-> "BUTTON", control |-> "send"],
   [el |-> "toggle button", tagName |-> "BUTTON", control |-> "toggle"],
   [el |-> "toggle button frame", tagName |-> "DIV", control |-> "toggle"],
   [el |-> "toggle button label", tagName |-> "SPAN", control |-> "toggle"]}

NoPointer ==
  [phase |-> "idle", n |-> 0, target |-> [el |-> "none", tagName |-> "", control |-> "none"],
   heldMs |-> 0, downMode |-> TREE_SHAPE, toggles |-> 0, byPointer |-> 0, byClick |-> 0]

PointerStart ==
  /\ dragStartRef = 0
  /\ pointer = NoPointer

\* handlePointerDown, for a press landing on tg
handlePointerDown(tg) ==
  /\ pointer.phase \in {"idle", "done"}
  /\ pointer.n < MaxPresses
  /\ dragStartRef' = wallMs
  /\ pointer' = [phase |-> "down", n |-> pointer.n + 1, target |-> tg, heldMs |-> 0,
                 downMode |-> treeState, toggles |-> 0, byPointer |-> 0, byClick |-> 0]
  /\ UNCHANGED <<appVars, genVars, animVars, passVars>>

\* The press is held for d milliseconds
Hold(d) ==
  /\ pointer.phase = "down"
  /\ pointer.heldMs = 0
  /\ d > 0
  /\ wallMs' = wallMs + d
  /\ pointer' = [pointer EXCEPT !.heldMs = d]
  /\ UNCHANGED <<treeState, wishes, timers, calls, flight, genVars, animVars, dragStartRef, passVars>>

\* The test of handlePointerUp: a quick press, not on a button or an input
tapToggles(now, start, tagName) ==
  /\ now - start < TapMs
  /\ tagName # "BUTTON"
  /\ tagName # "INPUT"

\* handlePointerUp: the release bubbles to the root div
handlePointerUp ==
  /\ pointer.phase = "down"
  /\ LET tap == tapToggles(wallMs, dragStartRef, pointer.target.tagName)
     IN /\ treeState' = IF tap THEN toggled(treeState) ELSE treeState
        /\ pointer' = [pointer EXCEPT !.phase = "up",
                                      !.toggles = @ + (IF tap THEN 1 ELSE 0),
                                      !.byPointer = @ + (IF tap THEN 1 ELSE 0)]
  /\ UNCHANGED <<wishes, timers, calls, wallMs, flight, genVars, animVars, dragStartRef, passVars>>

\* The click the browser dispatches after the release: it bubbles from
\* e.target to the toggle button, whose onClick is onToggle = toggleState
Click ==
  /\ pointer.phase = "up"
  /\ LET onToggle == pointer.target.control = "toggle"
     IN /\ treeState' = IF onToggle THEN toggled(treeState) ELSE treeState
        /\ pointer' = [pointer EXCEPT !.phase = "done",
                                      !.toggles = @ + (IF onToggle THEN 1 ELSE 0),
                                      !.byClick = @ + (IF onToggle THEN 1 ELSE 0)]
  /\ UNCHANGED <<wishes, timers, calls, wallMs, flight, genVars, animVars, dragStartRef, passVars>>

\* ------------------------------------------------------------------------
\* Math: Math.sin / Math.cos on milliradians, results in thousandths
\* ------------------------------------------------------------------------

Pi == 3142
TwoPi == 6283

\* sin on [0, Pi] (Bhaskara's rational approximation, within 0.002)
sinHalf(x) ==
  LET p == x * (Pi - x)
      num == 16000 * (p \div 100)
      den == (5 * Pi * Pi - 4 * p) \div 100
  IN (num + den \div 2) \div den

Sin(a) ==
  LET x == a % TwoPi
  IN IF x <= Pi THEN sinHalf(x) ELSE 0 - sinHalf(x - Pi)

Cos(a) == Sin(a + 1571)

\* Vector helpers (THREE.Vector3)
vadd(p, q) == <<p[1] + q[1], p[2] + q[2], p[3] + q[3]>>

\* ------------------------------------------------------------------------
\* MorphingTree.tsx: generateTextPositions
\* ------------------------------------------------------------------------

\* The off-screen canvas (2048 x 1024 sampled every 6 pixels in the source),
\* scaled down.
CanvasW == 3
CanvasH == 2
SampleStep == 2

\* The value absent array elements and fields read as.
Undefined == "undefined"

\* The text MorphingTree shows, as text.split('\n') returns it (the last
\* line ends with a heart symbol, written <3 here).
MessageLines ==
  <<"May we brave", "the cold together,", "till we see the", "wonders together. <3">>

\* Lines that draw no glyph
BlankLines == {"", " "}

Pixels == (0..(CanvasW - 1)) \X (0..(CanvasH - 1))

\* What the canvas can hold after fillRect and the fillText of every line:
\* the set of pixels whose red channel is 255 (the others are 0).  Which
\* pixels a glyph covers depends on the font, and a glyph the font lacks
\* covers none; a blank line covers none.
Images(lines) ==
  IF \A i \in DOMAIN lines : lines[i] \in BlankLines THEN {{}} ELSE SUBSET Pixels

\* imageData.data[(y * width + x) * 4]
red(img, x, y) == IF <<x, y>> \in img THEN 255 ELSE 0

\* The scan of one row: x = 0, step, 2 step, ... while x < width
RECURSIVE scanRow(_, _, _)
scanRow(img, x, y) ==
  IF x >= CanvasW THEN <<>>
  ELSE (IF red(img, x, y) > 128
        THEN <<<<((2 * x - CanvasW) * 25) \div 2, 0 - (((2 * y - CanvasH) * 25) \div 2), 0>>>>
        ELSE <<>>)
       \o scanRow(img, x + SampleStep, y)

\* The scan of the rows: y = 0, step, 2 step, ... while y < height
RECURSIVE scanRows(_, _)
scanRows(img, y) ==
  IF y >= CanvasH THEN <<>>
  ELSE scanRow(img, 0, y) \o scanRows(img, y + SampleStep)

validPoints(img) == scanRows(img, 0)

\* The three Math.random() results one output point consumes (thousandths)
JitterDraws == {<<0, 0, 0>>, <<999, 999, 999>>}

\* p + ((Math.random() - 0.5) * 0.05, (Math.random() - 0.5) * 0.05,
\*      (Math.random() - 0.5) * 0.5)
jittered(p, r) ==
  <<p[1] + mul(r[1] - 500, 50), p[2] + mul(r[2] - 500, 50), p[3] + mul(r[3] - 500, 500)>>

\* Which return statement a call left by
rasterPath(hasCtx, img) ==
  IF ~hasCtx THEN "no-context"
  ELSE IF Len(validPoints(img)) = 0 THEN "no-pixels"
  ELSE "sampled"

\* generateTextPositions returning the still empty result array when no
\* pixel was sampled
generateTextPositions_emptyFallback(count, hasCtx, img, jit) ==
  IF ~hasCtx THEN <<>>
  ELSE LET valid == validPoints(img)
       IN IF Len(valid) = 0
          THEN <<>>
          ELSE [i \in 1..count |-> jittered(valid[((i - 1) % Len(valid)) + 1], jit[i])]

\* The whole function: count points wanted, hasCtx whether getContext('2d')
\* gave a context, img what the canvas holds after drawing, jit the random
\* draws of the jitter.
generateTextPositions(count, hasCtx, img, jit) ==
  IF ~hasCtx THEN <<>>
  ELSE LET valid == validPoints(img)
       IN IF Len(valid) = 0
          THEN [i \in 1..count |-> <<0, 0, 0>>]
          ELSE [i \in 1..count |-> jittered(valid[((i - 1) % Len(valid)) + 1], jit[i])]

\* Largest particle count explored
MaxParticles == 3

\* The call of generateTextPositions (line 304 in the particles memo)
RasterizeText ==
  /\ genPc = "start"
  /\ \E hasCtx \in BOOLEAN, img \in Images(text), jit \in [1..total -> JitterDraws] :
       /\ textPositions' = generateTextPositions(total, hasCtx, img, jit)
       /\ raster' = rasterPath(hasCtx, img)
  /\ genPc' = "rastered"
  /\ UNCHANGED <<appVars, animVars, total, text, particles, indices, meshes, ptrVars, passVars>>

\* ------------------------------------------------------------------------
\* MorphingTree.tsx: the particles
\* ------------------------------------------------------------------------

TREE_HEIGHT == 12
TREE_RADIUS == 5

\* Math.pow(r, 0.85), Math.cbrt(r) and Math.acos(c) on the arguments the
\* explored draws give them (thousandths; acos in milliradians)
pow085(r) == CASE r = 0 -> 0 [] r = 442 -> 500 [] r = 999 -> 999

cbrt(r) == CASE r = 0 -> 0 [] r = 125 -> 500 [] r = 729 -> 900

acos(c) == CASE c = 0 - 1000 -> Pi [] c = 0 -> 1571

\* randomInSphere(radius) with u, v and w its three Math.random() results
randomInSphere(radius, u, v, w) ==
  LET theta == mul(TwoPi, u)
      phi == acos(2 * v - One)
      r == cbrt(w) * radius
  IN <<mul(mul(r, Sin(phi)), Cos(theta)), mul(mul(r, Sin(phi)), Sin(theta)), mul(r, Cos(phi))>>

palette == <<"#FFFFFF", "#F0FFFF", "#E0FFFF", "#F5FFFA", "#E0F2F1">>

\* typeId from rand: shards below 0.55, dust below 0.90, glass snowflakes
\* below 0.95, blue diamonds otherwise
typeOf(rand) ==
  IF rand < 550 THEN 0
  ELSE IF rand < 900 THEN 1
  ELSE IF rand < 950 THEN 2
  ELSE 3

\* One pass of the loop body: d holds the Math.random() results the pass
\* consumes (thousandths), textPos is textPositions[i].
particleOf(d, textPos) ==
  LET t == pow085(d.rT)
      y == t * TREE_HEIGHT - (TREE_HEIGHT * One) \div 2
      r == (One - t) * TREE_RADIUS
      angle == mul(d.rAngle, TwoPi)
      rOffset == mul(r, 800 + mul(d.rOff, 400))
      typeId == typeOf(d.rand)
  IN [scatterPosition |-> randomInSphere(25, d.sU, d.sV, d.sW),
      treePosition |-> <<mul(rOffset, Cos(angle)), y, mul(rOffset, Sin(angle))>>,
      textPosition |-> textPos,
      rotation |-> <<mul(d.rotX, Pi), mul(d.rotY, Pi), mul(d.rotZ, Pi)>>,
      scale |-> CASE typeId = 0 -> 80 + mul(d.rScale, 120)
                  [] typeId = 1 -> 30 + mul(d.rScale, 50)
                  [] typeId = 2 -> 200 + mul(d.rScale, 150)
                  [] typeId = 3 -> 80 + mul(d.rScale, 60),
      color |-> CASE typeId = 2 -> "#FFFFFF"
                  [] typeId = 3 -> "#90CAF9"
                  [] OTHER -> palette[(d.pal * Len(palette)) \div One + 1],
      speedOffset |-> d.speed,
      typeId |-> typeId]

\* textPositions[i], with i counted from 1
elementAt(arr, i) == IF i \in DOMAIN arr THEN arr[i] ELSE Undefined

\* The loop of the particles memo
generateParticles(n, tps, draws) ==
  [i \in 1..n |-> particleOf(draws[i], elementAt(tps, i))]

\* typeIndices with indices i and above of another group appended too
RECURSIVE typeIndices_spill(_, _, _)
typeIndices_spill(ps, typeId, i) ==
  IF i > Len(ps) THEN <<>>
  ELSE (IF ps[i].typeId >= typeId THEN <<i>> ELSE <<>>)
       \o typeIndices_spill(ps, typeId, i + 1)

\* The indices (counted from 1) the partition loop pushes to the list of one
\* type, in loop order; the last list takes every typeId that is not 0, 1, 2
RECURSIVE typeIndices(_, _, _)
typeIndices(ps, typeId, i) ==
  IF i > Len(ps) THEN <<>>
  ELSE (IF (IF typeId = 3 THEN ps[i].typeId \notin {0, 1, 2} ELSE ps[i].typeId = typeId)
        THEN <<i>> ELSE <<>>)
       \o typeIndices(ps, typeId, i + 1)

partition(ps) ==
  [shard |-> typeIndices(ps, 0, 1), dust |-> typeIndices(ps, 1, 1),
   flake |-> typeIndices(ps, 2, 1), blue |-> typeIndices(ps, 3, 1)]

Groups == {"shard", "dust", "flake", "blue"}

NoIndices == [g \in Groups |-> <<>>]

\* initMesh: slot i of a mesh gets the tree position and the scale of
\* particle indices[i], with the rotation a new Object3D has
initMesh(ps, idx) ==
  [i \in DOMAIN idx |->
     [position |-> ps[idx[i]].treePosition, rotation |-> <<0, 0, 0>>, scale |-> ps[idx[i]].scale]]

\* The Math.random() results explored for one particle
TypeRands == {300, 550, 900, 950}

GenDraws ==
  [rT : {442}, rAngle : {250}, rOff : {500}, sU : {0}, sV : {500}, sW : {125},
   rotX : {0}, rotY : {500}, rotZ : {999}, speed : {250}, rand : TypeRands,
   pal : {999}, rScale : {500}]

\* The rest of the particles memo (lines 306-363)
GenerateParticles ==
  /\ genPc = "rastered"
  /\ \E draws \in [1..total -> GenDraws] :
       particles' = generateParticles(total, textPositions, draws)
  /\ genPc' = "generated"
  /\ UNCHANGED <<appVars, animVars, total, text, textPositions, raster, indices, meshes, ptrVars, passVars>>

\* The memo of the four index lists
Partition ==
  /\ genPc = "generated"
  /\ indices' = partition(particles)
  /\ genPc' = "partitioned"
  /\ UNCHANGED <<appVars, animVars, total, text, textPositions, raster, particles, meshes, ptrVars, passVars>>

\* The layout effect: initMesh of every group
InitMeshes ==
  /\ genPc = "partitioned"
  /\ meshes' = [g \in Groups |-> initMesh(particles, indices[g])]
  /\ genPc' = "mounted"
  /\ UNCHANGED <<appVars, animVars, total, text, textPositions, raster, particles, indices, ptrVars, passVars>>

\* MorphingTree before its first render
GenStart ==
  /\ genPc = "start"
  /\ textPositions = <<>>
  /\ raster = "none"
  /\ particles = <<>>
  /\ indices = NoIndices
  /\ meshes = NoIndices

\* ------------------------------------------------------------------------
\* MorphingTree.tsx: the frame callbacks
\* ------------------------------------------------------------------------

\* THREE.MathUtils.mapLinear(x, a1, a2, b1, b2)
mapLinear(x, a1, a2, b1, b2) == b1 + ((x - a1) * (b2 - b1)) \div (a2 - a1)

\* THREE.MathUtils.lerp(x, y, t)
lerp(x, y, t) == x + mul(y - x, t)

\* Vector3.lerp(v, alpha)
vlerp(p, q, alpha) == <<lerp(p[1], q[1], alpha), lerp(p[2], q[2], alpha), lerp(p[3], q[3], alpha)>>

\* explodeStart = 18, explodeEnd = 4 (thousandths of a world unit)
explodeStart == 18000
explodeEnd == 4000

\* the explode factor with the range taken the other way round
explodeFactor_swapped(cameraDistance) ==
  clamp(mapLinear(cameraDistance, explodeEnd, explodeStart, 0, One), 0, One)

\* MorphingTree's frame callback
explodeFactor(cameraDistance) ==
  clamp(mapLinear(cameraDistance, explodeStart, explodeEnd, 0, One), 0, One)

\* RibbonWithStars' frame callback
ribbonExplodeFactor(dist) ==
  clamp(mapLinear(dist, explodeStart, explodeEnd, 0, One), 0, One)

\* FivePointedStar's frame callback
starExplodeFactor(dist) ==
  clamp(mapLinear(dist, explodeStart, explodeEnd, 0, One), 0, One)

\* nominalTarget with the tree turned the other way round
nominalTarget_turnedBack(p, mode, time) ==
  IF mode = TREE_SHAPE
  THEN LET rotationY == mul(time, 50)
           x == p.treePosition[1]
           z == p.treePosition[3]
       IN <<mul(x, Cos(rotationY)) + mul(z, Sin(rotationY)),
            p.treePosition[2] + mul(Sin(time * 2 + p.treePosition[2]), 20),
            mul(z, Cos(rotationY)) - mul(x, Sin(rotationY))>>
  ELSE IF mode = TEXT_SHAPE
  THEN <<p.textPosition[1],
         p.textPosition[2] + mul(Sin(time + p.textPosition[1]), 50),
         p.textPosition[3]>>
  ELSE p.scatterPosition

\* The target of a particle before the explosion override (lines 430-446);
\* time is the elapsed time in milliseconds
nominalTarget(p, mode, time) ==
  IF mode = TREE_SHAPE
  THEN LET rotationY == mul(time, 50)
           x == p.treePosition[1]
           z == p.treePosition[3]
       IN <<mul(x, Cos(rotationY)) - mul(z, Sin(rotationY)),
            p.treePosition[2] + mul(Sin(time * 2 + p.treePosition[2]), 20),
            mul(x, Sin(rotationY)) + mul(z, Cos(rotationY))>>
  ELSE IF mode = TEXT_SHAPE
  THEN <<p.textPosition[1],
         p.textPosition[2] + mul(Sin(time + p.textPosition[1]), 50),
         p.textPosition[3]>>
  ELSE p.scatterPosition

\* The floating noise of an exploded particle (lines 452-456)
noise(p, time, ef) ==
  <<mul(mul(Sin(mul(time, 500) + p.scatterPosition[2]), 1500), ef),
    mul(mul(Cos(mul(time, 300) + p.scatterPosition[1]), 1500), ef),
    mul(mul(Sin(mul(time, 400) + p.scatterPosition[3]), 1500), ef)>>

\* The explosion override with the blend towards the scatter position
\* left out
exploded_noBlend(target, p, time, ef) ==
  IF ef > 1
  THEN vadd(target, noise(p, time, ef))
  ELSE target

\* The explosion override (lines 450-461)
exploded(target, p, time, ef) ==
  IF ef > 1
  THEN vadd(vlerp(target, p.scatterPosition, ef), noise(p, time, ef))
  ELSE target

targetPos(p, mode, time, ef) == exploded(nominalTarget(p, mode, time), p, time, ef)

\* Twinkle/shimmer (lines 473-482)
shimmerOf(p, time) ==
  LET blinkSpeed == 2000 + p.speedOffset * 3
  IN CASE p.typeId = 0 -> 800 + mul(Sin(mul(time, blinkSpeed)), 400)
       [] p.typeId = 1 -> One + mul(Sin(time * 5 + p.speedOffset), 200)
       [] p.typeId = 3 ->
            LET sn == Sin(time * 3 + p.speedOffset * 10)
            IN 500 + mul(IF sn < 0 THEN 0 - sn ELSE sn, 1500)
       [] OTHER -> One

\* Scale management (lines 485-496)
scaleOf_flakesShown(p, mode, time, ef) ==
  LET hidden == mode = TEXT_SHAPE /\ p.typeId = 3
      shimmer == IF hidden THEN 0 ELSE shimmerOf(p, time)
      scaleMultiplier == IF mode = TEXT_SHAPE /\ ~hidden THEN lerp(500, One, ef) ELSE One
  IN mul(mul(p.scale, shimmer), scaleMultiplier)

scaleOf(p, mode, time, ef) ==
  LET hidden == mode = TEXT_SHAPE /\ p.typeId \in {2, 3}
      shimmer == IF hidden THEN 0 ELSE shimmerOf(p, time)
      scaleMultiplier == IF mode = TEXT_SHAPE /\ ~hidden THEN lerp(500, One, ef) ELSE One
  IN mul(mul(p.scale, shimmer), scaleMultiplier)

\* const lerpSpeed = 0.04
lerpSpeed == 40

\* Vector3.lerp on one coordinate, this.x += (v.x - this.x) * alpha, in the
\* double precision of the Vector3: x and y in thousandths, the result in
\* millionths
lerpExact(x, y, alpha) == x * One + (y - x) * alpha

\* setMatrixAt copies the composed matrix into the Float32Array of
\* instanceMatrix; the next frame's getMatrixAt and decompose read the stored
\* value back.  The store keeps thousandths: x, in millionths, becomes the
\* nearest thousandth.
toStored_truncated(x) == x \div One

toStored(x) == (x + One \div 2) \div One

\* currentPos.lerp(targetPos, lerpSpeed) on the position decoded from the
\* instance matrix, as setMatrixAt stores it
storedLerp(current, target) ==
  [k \in 1..3 |-> toStored(lerpExact(current[k], target[k], lerpSpeed))]

\* One pass of the loop of animateMesh: the slot decoded from the instance
\* matrix, and the slot written back
animateSlot_snap(p, slot, mode, time, ef) ==
  [position |-> targetPos(p, mode, time, ef),
   rotation |-> <<p.rotation[1] + mul(time, 500), p.rotation[2] + mul(time, 500), p.rotation[3]>>,
   scale |-> scaleOf(p, mode, time, ef)]

animateSlot(p, slot, mode, time, ef) ==
  [position |-> storedLerp(slot.position, targetPos(p, mode, time, ef)),
   rotation |-> <<p.rotation[1] + mul(time, 500), p.rotation[2] + mul(time, 500), p.rotation[3]>>,
   scale |-> scaleOf(p, mode, time, ef)]

\* animateMesh(mesh, indices)
animateMesh(mesh, idx, mode, time, ef) ==
  [i \in DOMAIN idx |-> animateSlot(particles[idx[i]], mesh[i], mode, time, ef)]

\* targetPos.copy(p.textPosition) throws when textPosition is undefined
animateThrows(mode) ==
  /\ mode = TEXT_SHAPE
  /\ \E i \in DOMAIN particles : particles[i].textPosition = Undefined

\* The group of the topper star and of the ribbon: scale.lerp(finalScale, 0.05)
groupScale(scale, isVisible, ef) ==
  LET targetScale == IF isVisible THEN One ELSE 0
      finalScale == mul(targetScale, One - ef)
  IN lerp(scale, finalScale, 50)

\* Blink of one ornament light (lines 227-242): the matrix is composed from
\* the position, quaternion and scale of the new Object3D tempObj, of which
\* only the scale is set
blinkOrnament(data, time) ==
  LET blink == Sin(time * 4 + data.phase)
      pulseScale == mul(150, 500 + mul(500, IF blink > 0 THEN 1500 ELSE 500))
  IN [position |-> <<0, 0, 0>>, rotation |-> <<0, 0, 0>>, scale |-> pulseScale,
      color |-> IF blink > 800 THEN "#FFFFFF" ELSE "#AAAAAA"]

\* ------------------------------------------------------------------------
\* MorphingTree.tsx: RibbonWithStars' ornament lights
\* ------------------------------------------------------------------------

\* CatmullRomCurve3.getPoint(t) at the start of the curve: its first point,
\* (cos 0 * 15 + sin 0 * 2.5, -7.5 + cos 0 * 1.5, sin 0 * 15 + sin 0 * 2.5)
curvePoint(t) == CASE t = 0 -> <<15000, -6000, 0>>

\* One pass of the starPositions loop; d holds its Math.random() results
ornamentOf(d) ==
  [pos |-> vadd(curvePoint(d.t), <<mul(d.jx - 500, 500), mul(d.jy - 500, 500), mul(d.jz - 500, 500)>>),
   phase |-> mul(d.ph, TwoPi)]

\* The layout effect of RibbonWithStars, for one ornament
layoutOrnament(data, d) ==
  [position |-> data.pos,
   rotation |-> <<mul(d.rx, Pi), mul(d.ry, Pi), mul(d.rz, Pi)>>,
   scale |-> 100 + mul(d.rs, 100),
   color |-> "#FFFFFF"]

\* The camera starts at [0, 2, 22]; OrbitControls keeps its distance to the
\* origin between minDistance = 2 and maxDistance = 40
InitialCameraDist == 22091

\* Number of frames explored
MaxFrames == 2

NoFrame ==
  [n |-> 0, time |-> 0, dist |-> 0, mode |-> "none", explodeFactor |-> 0,
   ribbonFactor |-> 0, starFactor |-> 0, targets |-> <<>>, error |-> FALSE,
   before |-> <<>>, prevMode |-> "none", prevTargets |-> <<>>]

\* OrbitControls: the user zooms
Zoom(d) ==
  /\ genPc = "mounted"
  /\ d # cameraDist
  /\ cameraDist' = d
  /\ UNCHANGED <<appVars, genVars, starGroup, ribbonGroup, ornaments, ornamentMesh, frame, ptrVars, passVars>>

\* One frame of the render loop: the clock has advanced, and the frame
\* callbacks of RibbonWithStars, FivePointedStar and MorphingTree run.  When
\* MorphingTree's callback throws it does so in the first pass of its first
\* loop, before any instance matrix is written.
RenderFrame(limit) ==
  /\ genPc = "mounted"
  /\ frame.n < limit
  /\ wallMs' = wallMs + TickMs
  /\ LET time == wallMs + TickMs - ClockStartEpochMs
         ef == explodeFactor(cameraDist)
         isVisible == treeState = TREE_SHAPE
     IN /\ ribbonGroup' = [rotationY |-> mul(Sin(mul(time, 100)), 200),
                           scale |-> groupScale(ribbonGroup.scale, isVisible, ribbonExplodeFactor(cameraDist))]
        /\ ornamentMesh' = [i \in DOMAIN ornaments |-> blinkOrnament(ornaments[i], time)]
        /\ starGroup' = [rotationY |-> mul(time, 200),
                         scale |-> groupScale(starGroup.scale, isVisible, starExplodeFactor(cameraDist))]
        /\ meshes' = IF animateThrows(treeState) THEN meshes
                     ELSE [g \in Groups |-> animateMesh(meshes[g], indices[g], treeState, time, ef)]
        /\ frame' = [n |-> frame.n + 1, time |-> time, dist |-> cameraDist, mode |-> treeState,
                     explodeFactor |-> ef,
                     ribbonFactor |-> ribbonExplodeFactor(cameraDist),
                     starFactor |-> starExplodeFactor(cameraDist),
                     targets |-> IF animateThrows(treeState) THEN <<>>
                                 ELSE [i \in DOMAIN particles |-> targetPos(particles[i], treeState, time, ef)],
                     error |-> animateThrows(treeState),
                     before |-> [g \in Groups |-> [i \in DOMAIN meshes[g] |-> meshes[g][i].position]],
                     prevMode |-> frame.mode,
                     prevTargets |-> frame.targets]
  /\ UNCHANGED <<treeState, wishes, timers, calls, flight, genVars_butMeshes, cameraDist, ornaments, ptrVars, passVars>>

Frame == RenderFrame(MaxFrames)

\* ------------------------------------------------------------------------
\* MorphingTree's frame callback statement by statement: animateMesh called
\* for shardRef, dustRef, flakeRef and blueRef in turn, each call looping
\* over its index list and then setting instanceMatrix.needsUpdate
\* ------------------------------------------------------------------------

\* animateMesh(shardRef.current, shardIndices); ... dustIndices; ...
\* flakeIndices; ... blueIndices
PassGroups == <<"shard", "dust", "flake", "blue">>

NoPass ==
  [pc |-> "idle", n |-> 0, g |-> 0, i |-> 0, time |-> 0, mode |-> "none", ef |-> 0,
   written |-> <<>>, dirty |-> {}, error |-> FALSE]

\* The callback starts: it reads the clock and the camera distance.  The
\* render loop calls it again only after it has returned.
BeginPass ==
  /\ genPc = "mounted"
  /\ pass.pc = "idle"
  /\ pass.n < MaxFrames
  /\ wallMs' = wallMs + TickMs
  /\ pass' = [pc |-> "loop", n |-> pass.n + 1, g |-> 1, i |-> 1,
              time |-> wallMs + TickMs - ClockStartEpochMs, mode |-> treeState,
              ef |-> explodeFactor(cameraDist), written |-> <<>>, dirty |-> {}, error |-> FALSE]
  /\ UNCHANGED <<treeState, wishes, timers, calls, flight, genVars, animVars, ptrVars>>

\* The particle of the current pass of the loop
passParticle == particles[indices[PassGroups[pass.g]][pass.i]]

passThrows == pass.mode = TEXT_SHAPE /\ passParticle.textPosition = Undefined

\* One pass of the loop: getMatrixAt(i), ..., setMatrixAt(i)
WriteSlot ==
  /\ pass.pc = "loop"
  /\ pass.i <= Len(indices[PassGroups[pass.g]])
  /\ ~passThrows
  /\ LET g == PassGroups[pass.g]
     IN /\ meshes' = [meshes EXCEPT ![g][pass.i] =
                        animateSlot(passParticle, meshes[g][pass.i], pass.mode, pass.time, pass.ef)]
        /\ pass' = [pass EXCEPT !.i = @ + 1,
                                !.written = Append(@, [group |-> g, slot |-> pass.i,
                                                       particle |-> indices[g][pass.i]])]
  /\ UNCHANGED <<appVars, genVars_butMeshes, animVars, ptrVars>>

\* targetPos.copy(p.textPosition) throws: the callback ends there
Throw ==
  /\ pass.pc = "loop"
  /\ pass.i <= Len(indices[PassGroups[pass.g]])
  /\ passThrows
  /\ pass' = [pass EXCEPT !.pc = "idle", !.error = TRUE]
  /\ UNCHANGED <<appVars, genVars, animVars, ptrVars>>

\* After the loop: mesh.instanceMatrix.needsUpdate = true, and the next
\* call of animateMesh, or the end of the callback
MarkDirty_early ==
  /\ pass.pc = "loop"
  /\ pass' = [pass EXCEPT !.dirty = @ \cup {PassGroups[pass.g]},
                          !.g = IF pass.g = Len(PassGroups) THEN @ ELSE @ + 1,
                          !.i = 1,
                          !.pc = IF pass.g = Len(PassGroups) THEN "idle" ELSE "loop"]
  /\ UNCHANGED <<appVars, genVars, animVars, ptrVars>>

MarkDirty ==
  /\ pass.pc = "loop"
  /\ pass.i > Len(indices[PassGroups[pass.g]])
  /\ pass' = [pass EXCEPT !.dirty = @ \cup {PassGroups[pass.g]},
                          !.g = IF pass.g = Len(PassGroups) THEN @ ELSE @ + 1,
                          !.i = 1,
                          !.pc = IF pass.g = Len(PassGroups) THEN "idle" ELSE "loop"]
  /\ UNCHANGED <<appVars, genVars, animVars, ptrVars>>

\* The scene before RibbonWithStars and FivePointedStar are constructed
AnimStart ==
  /\ cameraDist = InitialCameraDist
  /\ starGroup = [rotationY |-> 0, scale |-> One]
  /\ ribbonGroup = [rotationY |-> 0, scale |-> One]
  /\ ornaments = <<>>
  /\ ornamentMesh = <<>>
  /\ frame = NoFrame
  /\ pass = NoPass

AppInit ==
  /\ treeState = TREE_SHAPE
  /\ wishes = <<>>
  /\ timers = {}
  /\ calls = 0
  /\ wallMs = ClockStartEpochMs
  /\ flight = <<>>
  /\ PointerStart

Init ==
  /\ AppInit
  /\ GenStart
  /\ AnimStart
  /\ total = MaxParticles
  /\ text = MessageLines

Next ==
  \/ toggleState
  \/ \E id \in WishIds : handleSendWish(id)
  \/ \E tm \in timers : CleanupTimer(tm)
  \/ Tick
  \/ WishFrame

Spec == Init /\ [][Next]_vars

\* ------------------------------------------------------------------------
\* WishCluster as a function of its inputs: any wish, any elapsed time
\* ------------------------------------------------------------------------

FlightStepMs == 250
MaxFlightSteps == 16

FlightNows == {k * FlightStepMs : k \in 0..MaxFlightSteps}
FlightStarts == {k * FlightStepMs : k \in (0 - 4)..MaxFlightSteps}

FlightInit ==
  /\ treeState = TREE_SHAPE
  /\ timers = {}
  /\ calls = 1
  /\ \E now \in FlightNows : wallMs = ClockStartEpochMs + now
  /\ \E st \in FlightStarts : wishes = <<[id |-> "k3f9", startTime |-> st, call |-> 1]>>
  /\ flight = <<Mounted>>
  /\ PointerStart
  /\ GenStart
  /\ AnimStart
  /\ total = MaxParticles
  /\ text = MessageLines

FlightNext == WishFrame

SpecFlight == FlightInit /\ [][FlightNext]_vars

\* ------------------------------------------------------------------------
\* MorphingTree's construction, for any particle count and any text
\* ------------------------------------------------------------------------

Texts == {MessageLines, <<"">>, <<" ", "">>, <<"", "hi">>}

GenInit ==
  /\ AppInit
  /\ GenStart
  /\ AnimStart
  /\ total \in 0..MaxParticles
  /\ text \in Texts

GenNext ==
  \/ RasterizeText
  \/ GenerateParticles
  \/ Partition
  \/ InitMeshes

SpecGen == GenInit /\ [][GenNext]_vars

\* ------------------------------------------------------------------------
\* The mounted scene, frame after frame
\* ------------------------------------------------------------------------

\* TOTAL_PARTICLES (3400 in the source) and starCount (40), scaled down
AnimParticles == 2
OrnamentCount == 1

\* The Math.random() results explored for one particle of the mounted
\* scene: a shard, a dust particle, a glass snowflake and a blue diamond
AnimDraws ==
  {[rT |-> 442, rAngle |-> 250, rOff |-> 500, sU |-> 0, sV |-> 500, sW |-> 125,
    rotX |-> 0, rotY |-> 500, rotZ |-> 999, speed |-> 250, rand |-> 300,
    pal |-> 999, rScale |-> 500],
   [rT |-> 0, rAngle |-> 0, rOff |-> 0, sU |-> 250, sV |-> 0, sW |-> 729,
    rotX |-> 500, rotY |-> 0, rotZ |-> 0, speed |-> 0, rand |-> 700,
    pal |-> 0, rScale |-> 0],
   [rT |-> 999, rAngle |-> 500, rOff |-> 999, sU |-> 500, sV |-> 500, sW |-> 729,
    rotX |-> 0, rotY |-> 0, rotZ |-> 500, speed |-> 999, rand |-> 920,
    pal |-> 500, rScale |-> 999],
   [rT |-> 442, rAngle |-> 750, rOff |-> 999, sU |-> 750, sV |-> 500, sW |-> 125,
    rotX |-> 999, rotY |-> 999, rotZ |-> 999, speed |-> 500, rand |-> 950,
    pal |-> 250, rScale |-> 250]}

\* What the canvas held: nothing, one sampled pixel, two sampled pixels
AnimImages == {{}, {<<0, 0>>}, {<<0, 0>>, <<SampleStep, 0>>}} \cap SUBSET Pixels

AnimJitter == {<<500, 500, 500>>}

OrnamentDraws ==
  {[t |-> 0, jx |-> 500, jy |-> 0, jz |-> 999, ph |-> 250,
    rx |-> 0, ry |-> 500, rz |-> 999, rs |-> 500]}

AnimDists == {explodeEnd, 11000, InitialCameraDist}

\* The scene after MorphingTree, RibbonWithStars and FivePointedStar were
\* constructed and their layout effects have run, before the first frame
Mounted3D(n) ==
  /\ genPc = "mounted"
  /\ total = n
  /\ text = MessageLines
  /\ \E hasCtx \in BOOLEAN, img \in AnimImages, jit \in [1..n -> AnimJitter],
        draws \in [1..n -> AnimDraws] :
       /\ textPositions = generateTextPositions(n, hasCtx, img, jit)
       /\ raster = rasterPath(hasCtx, img)
       /\ particles = generateParticles(n, textPositions, draws)
  /\ indices = partition(particles)
  /\ meshes = [g \in Groups |-> initMesh(particles, indices[g])]
  /\ starGroup = [rotationY |-> 0, scale |-> One]
  /\ ribbonGroup = [rotationY |-> 0, scale |-> One]
  /\ \E od \in [1..OrnamentCount -> OrnamentDraws] :
       /\ ornaments = [i \in 1..OrnamentCount |-> ornamentOf(od[i])]
       /\ ornamentMesh = [i \in 1..OrnamentCount |-> layoutOrnament(ornaments[i], od[i])]
  /\ frame = NoFrame
  /\ pass = NoPass

AnimInit ==
  /\ AppInit
  /\ Mounted3D(AnimParticles)
  /\ cameraDist = InitialCameraDist

AnimNext ==
  \/ toggleState
  \/ \E d \in AnimDists : Zoom(d)
  \/ Frame

SpecAnim == AnimInit /\ [][AnimNext]_vars

\* ------------------------------------------------------------------------
\* The frame callbacks as functions of the camera distance
\* ------------------------------------------------------------------------

ExplodeStepDist == 500
MaxExplodeSteps == 80

ExplodeDists == {k * ExplodeStepDist : k \in 4..MaxExplodeSteps}

ExplodeInit ==
  /\ AppInit
  /\ Mounted3D(1)
  /\ cameraDist \in ExplodeDists

ExplodeNext == Frame

SpecExplode == ExplodeInit /\ [][ExplodeNext]_vars

\* ------------------------------------------------------------------------
\* The particle positions over many frames, the mode and the camera left
\* alone.  MorphingTree takes any TreeState as its treeState prop.
\* ------------------------------------------------------------------------

MaxSmoothFrames == 240

SmoothFrame == RenderFrame(MaxSmoothFrames)

SmoothInit ==
  /\ wishes = <<>>
  /\ timers = {}
  /\ calls = 0
  /\ wallMs = ClockStartEpochMs
  /\ flight = <<>>
  /\ PointerStart
  /\ treeState \in TreeState
  /\ Mounted3D(AnimParticles)
  /\ cameraDist = InitialCameraDist

SmoothNext == SmoothFrame

SpecSmooth == SmoothInit /\ [][SmoothNext]_vars

\* ------------------------------------------------------------------------
\* MorphingTree's frame callback, statement by statement
\* ------------------------------------------------------------------------

PassInit ==
  /\ AppInit
  /\ Mounted3D(AnimParticles)
  /\ cameraDist \in {explodeEnd, InitialCameraDist}

PassNext ==
  \/ (pass.pc = "idle" /\ toggleState)
  \/ BeginPass
  \/ WriteSlot
  \/ Throw
  \/ MarkDirty

SpecPass == PassInit /\ [][PassNext]_vars

\* ------------------------------------------------------------------------
\* Presses on the page
\* ------------------------------------------------------------------------

PointerInit ==
  /\ AppInit
  /\ GenStart
  /\ AnimStart
  /\ total = MaxParticles
  /\ text = MessageLines

PointerNext ==
  \/ \E tg \in PressTargets : handlePointerDown(tg)
  \/ \E d \in PressMs : Hold(d)
  \/ handlePointerUp
  \/ Click

SpecPointer == PointerInit /\ [][PointerNext]_vars

\* ------------------------------------------------------------------------
\* Claims
\* ------------------------------------------------------------------------

\* C1 (as claimed): in every frame, the progress of a wish made by
\* handleSendWish is clamp((time since its submission) / 3 s, 0, 1): 0 at
\* submission, growing in the following frames, 1 from three seconds after
\* submission on, which is before the 3.5 s cleanup timer removes the wish.
C1_FlightFollowsSubmission ==
  \A i \in DOMAIN wishes :
    flight[i].rendered =>
      flight[i].t = clamp(((flight[i].at - wishes[i].startTime) * One) \div FlightMs, 0, One)

\* C2 (as claimed): as long as the cleanup timer of a handleSendWish call is
\* pending, the wish of that call is in the collection (no other timer has
\* removed it and it was not lost), and once no timer is pending the
\* collection is empty.
C2_WishPresentUntilOwnTimer ==
  /\ \A tm \in timers : \E i \in DOMAIN wishes : wishes[i].call = tm.call
  /\ timers = {} => wishes = <<>>

\* C3: the mode starts as TREE_SHAPE, is TREE_SHAPE or TEXT_SHAPE in every
\* reachable state (never SCATTERED), every step that changes it maps
\* TREE_SHAPE to TEXT_SHAPE and anything else to TREE_SHAPE, and toggling the
\* mode of a reachable state twice gives that mode back.
C3_ModeToggles ==
  /\ treeState = TREE_SHAPE
  /\ [](treeState \in {TREE_SHAPE, TEXT_SHAPE})
  /\ [][treeState' # treeState =>
          /\ treeState = TREE_SHAPE => treeState' = TEXT_SHAPE
          /\ treeState # TREE_SHAPE => treeState' = TREE_SHAPE]_vars
  /\ [][toggleState => (treeState' # treeState /\ toggled(treeState') = treeState)]_vars

C3_Witness == treeState = TEXT_SHAPE /\ calls = 0

\* C4 (as claimed): generateTextPositions returns exactly count points on
\* every return path, so textPositions[i] is a defined point for every
\* particle index, and every particle has a defined textPosition.
C4_ReturnsCountPoints ==
  /\ genPc # "start" =>
       /\ Len(textPositions) = total
       /\ \A i \in 1..total : elementAt(textPositions, i) # Undefined
  /\ \A i \in DOMAIN particles : particles[i].textPosition # Undefined

\* C5: when the scan of the canvas finds no candidate pixel (which is what
\* happens to a text of blank lines whenever a context is available, and to
\* a text whose glyphs cover no sampled pixel), generateTextPositions returns
\* exactly count points, all of them the origin.
C5_NoPixelsGivesOrigins ==
  /\ raster = "no-pixels" =>
       /\ Len(textPositions) = total
       /\ \A i \in 1..total : textPositions[i] = <<0, 0, 0>>
  /\ (genPc # "start" /\ raster # "no-context" /\ \A k \in DOMAIN text : text[k] \in {"", " "})
       => raster = "no-pixels"

C5_Witness ==
  /\ raster = "no-pixels" /\ text = <<"">> /\ total = MaxParticles
  /\ Len(textPositions) = MaxParticles

\* C6: the generator returns exactly TOTAL_PARTICLES particles; the four
\* index lists are pairwise disjoint and together hold every particle index
\* exactly once, index i in the list its particle's typeId selects; and once
\* made, the lists never change.
C6_PartitionOk ==
  /\ genPc \in {"partitioned", "mounted"} =>
       /\ Len(particles) = total
       /\ \A i \in 1..total :
            Cardinality({gk \in UNION {{<<g, k>> : k \in DOMAIN indices[g]} : g \in Groups} :
                           indices[gk[1]][gk[2]] = i}) = 1
       /\ \A g \in Groups : \A k \in DOMAIN indices[g] :
            /\ indices[g][k] \in 1..total
            /\ g = <<"shard", "dust", "flake", "blue">>[particles[indices[g][k]].typeId + 1]

C6_PartitionFixed ==
  /\ [](genPc \in {"generated", "partitioned", "mounted"} => Len(particles) = total)
  /\ []C6_PartitionOk
  /\ [][(genPc \in {"partitioned", "mounted"}) => indices' = indices]_vars

C6_Witness ==
  /\ genPc = "mounted" /\ total = MaxParticles
  /\ \A g \in Groups \ {"dust"} : Len(indices[g]) = 1
  /\ \A g \in Groups : Len(meshes[g]) = Len(indices[g])

\* C7: the explode factor of a frame at camera distance d is within [0, 1],
\* is 1 for d <= 4 and 0 for d >= 18, is (18 - d) / 14 for 4 <= d <= 18, is
\* not larger than at any smaller distance, and the particle animator, the
\* ribbon and the topper star computed the same factor.
C7_ExplodeFactor ==
  frame.n > 0 =>
    LET d == frame.dist
        ef == frame.explodeFactor
    IN /\ ef >= 0 /\ ef <= One
       /\ d <= 4000 => ef = One
       /\ d >= 18000 => ef = 0
       /\ (d >= 4000 /\ d <= 18000) => ef = ((18000 - d) * One) \div 14000
       /\ \A d2 \in ExplodeDists : d2 <= d => explodeFactor(d2) >= ef
       /\ frame.ribbonFactor = ef
       /\ frame.starFactor = ef

C7_Witness ==
  /\ frame.n > 0 /\ frame.dist > 4000 /\ frame.dist < 18000
  /\ frame.explodeFactor > 0 /\ frame.explodeFactor < One
  /\ frame.ribbonFactor = frame.explodeFactor /\ frame.starFactor = frame.explodeFactor

\* The tree position of particle i turned about the vertical axis by the
\* angle time * 0.05, as the claim C9 states it
TurnedTree(i, time) ==
  LET a == mul(time, 50)
      tp == particles[i].treePosition
  IN <<mul(tp[1], Cos(a)) - mul(tp[3], Sin(a)), tp[2], mul(tp[1], Sin(a)) + mul(tp[3], Cos(a))>>

\* C9 (as claimed): in a frame with mode TREE_SHAPE and explode factor 0 the
\* target of every particle is its tree position turned about the vertical
\* axis by the angle time * 0.05, with nothing else added.
C9_TargetIsTurnedTree ==
  (frame.n > 0 /\ frame.mode = TREE_SHAPE /\ frame.explodeFactor = 0) =>
    \A i \in DOMAIN frame.targets : frame.targets[i] = TurnedTree(i, frame.time)

\* C9 (amended): in such a frame the x and z of the target are those of the
\* turned tree position, and its y is the tree position's y plus the gentle
\* floating 0.02 * sin(2 * time + y), so within 0.02 of it.
C9_TargetIsTurnedTreePlusFloating ==
  (frame.n > 0 /\ frame.mode = TREE_SHAPE /\ frame.explodeFactor = 0) =>
    \A i \in DOMAIN frame.targets :
      LET tgt == frame.targets[i]
          turned == TurnedTree(i, frame.time)
          dy == tgt[2] - turned[2]
      IN /\ tgt[1] = turned[1]
         /\ tgt[3] = turned[3]
         /\ dy = (Sin(2 * frame.time + particles[i].treePosition[2]) * 20) \div One
         /\ dy >= 0 - 20 /\ dy <= 20

C9_Witness ==
  /\ frame.n > 0 /\ frame.mode = TREE_SHAPE /\ frame.explodeFactor = 0
  /\ \E i \in DOMAIN frame.targets :
       /\ frame.targets[i][2] # particles[i].treePosition[2]
       /\ frame.targets[i][3] # particles[i].treePosition[3]

\* C10: in a frame with mode TEXT_SHAPE and explode factor 1 the target of
\* every particle is its scatter position plus the floating noise (at most
\* 1.5 on each axis), whatever its text position: two particles with the
\* same scatter position have the same target.
C10_TextExplodedIsScatter ==
  (frame.n > 0 /\ frame.mode = TEXT_SHAPE /\ frame.explodeFactor = One) =>
    \A i \in DOMAIN frame.targets :
      /\ \A k \in 1..3 :
           /\ frame.targets[i][k] - particles[i].scatterPosition[k] <= 1500
           /\ particles[i].scatterPosition[k] - frame.targets[i][k] <= 1500
      /\ \A j \in DOMAIN frame.targets :
           particles[i].scatterPosition = particles[j].scatterPosition
             => frame.targets[i] = frame.targets[j]

C10_Witness ==
  /\ frame.n > 0 /\ frame.mode = TEXT_SHAPE /\ frame.explodeFactor = One
  /\ \E i, j \in DOMAIN frame.targets :
       /\ particles[i].textPosition # particles[j].textPosition
       /\ particles[i].textPosition # Undefined /\ particles[j].textPosition # Undefined
       /\ [particles[i] EXCEPT !.textPosition = 0] = [particles[j] EXCEPT !.textPosition = 0]
       /\ frame.targets[i] = frame.targets[j]

\* C8: for any wish start time and any elapsed time, the flight progress t
\* is within [0, 1], is 0 whenever now <= startTime and 1 whenever
\* now - startTime >= 3 s; the cluster is at the start point (0, -10, 5) at
\* t = 0, at the end point (0, 6.5, 0) at t = 1, and half way (t = 0.5) at
\* (start + 2 * control + end) / 4 with control = (10, 0, 10), staying within
\* the bounding box of the three points.
C8_FlightClamped ==
  \A i \in DOMAIN wishes :
    flight[i].rendered =>
      LET now == flight[i].at - ClockStartEpochMs
          st == wishes[i].startTime
          t == flight[i].t
          pos == flight[i].pos
      IN /\ t >= 0 /\ t <= One
         /\ now <= st => t = 0
         /\ now - st >= 3000 => t = One
         /\ t = 0 => pos = <<0, -10000, 5000>>
         /\ t = One => pos = <<0, 6500, 0>>
         /\ t = 500 => pos = <<5000, -875, 6250>>
         /\ pos[1] >= 0 /\ pos[1] <= 10000
         /\ pos[2] >= -10000 /\ pos[2] <= 6500
         /\ pos[3] >= 0 /\ pos[3] <= 10000

C8_Witness ==
  /\ Len(wishes) = 1 /\ flight[1].rendered
  /\ flight[1].at - ClockStartEpochMs - wishes[1].startTime > 3000
  /\ flight[1].t = One /\ flight[1].pos = endPos

\* C11 compares two runs of the frame callback from equal inputs; the callback
\* is the operator animateSlot here, and has no formula of one behaviour.

Abs(x) == IF x < 0 THEN 0 - x ELSE x

\* One coordinate of a stored position after a frame: the value before the
\* frame plus 0.04 times its distance to the target, to the nearest value the
\* instance matrix stores; between the value before and the target; and on
\* the target only when it was there before
CarriedTowards(prev, target, new) ==
  /\ 2 * Abs(new * One - (prev * One + (target - prev) * 40)) <= One
  /\ \/ prev <= new /\ new <= target
     \/ target <= new /\ new <= prev
  /\ new = target => prev = target

\* C12: before the first frame every slot holds its particle's treePosition;
\* a Mode switch leaves the stored positions alone; and in every frame,
\* the first after a switch included, each stored coordinate becomes the
\* one the previous frame stored plus 0.04 times (target - that), without
\* jumping to the target and without passing it
C12_PositionCarried ==
  /\ [](genPc = "mounted" /\ frame.n = 0 =>
         \A g \in Groups : \A i \in DOMAIN meshes[g] :
           meshes[g][i].position = particles[indices[g][i]].treePosition)
  /\ [][(treeState' # treeState) => meshes' = meshes]_vars
  /\ [][(frame'.n # frame.n /\ ~frame'.error) =>
          \A g \in Groups : \A i \in DOMAIN meshes[g] : \A k \in 1..3 :
            CarriedTowards(meshes[g][i].position[k],
                           frame'.targets[indices[g][i]][k],
                           meshes'[g][i].position[k])]_vars

\* The second frame ran in another Mode than the first and moved a particle
\* part of the way to its new target
C12_Witness ==
  /\ frame.n = 2
  /\ ~frame.error
  /\ frame.prevMode # "none"
  /\ frame.prevMode # frame.mode
  /\ \E g \in Groups : \E i \in DOMAIN meshes[g] : \E k \in 1..3 :
       /\ meshes[g][i].position[k] # frame.before[g][i][k]
       /\ meshes[g][i].position[k] # frame.targets[indices[g][i]][k]
       /\ frame.targets[indices[g][i]][k] # frame.prevTargets[indices[g][i]][k]

\* C13: every ribbon ornament light stays at the point the layout effect
\* gave it: after any frame its stored position is still starPositions[i].pos,
\* and the frame has set its scale to one of the two pulse sizes, the larger
\* one when sin(4t + phase) > 0
C13_OrnamentStaysAtItsPoint ==
  \A i \in DOMAIN ornamentMesh :
    /\ ornamentMesh[i].position = ornaments[i].pos
    /\ frame.n > 0 =>
         ornamentMesh[i].scale =
           IF Sin(frame.time * 4 + ornaments[i].phase) > 0 THEN 187 ELSE 112

\* C14: once a press is over (released, and its click dispatched): a quick
\* press (under 200 ms) on the toggle button or on an element nested in it
\* has toggled the Mode exactly once, through onToggle and not through the
\* pointer handler; a quick press on the wish input or the Send button has
\* not toggled it; a quick press anywhere else has toggled it exactly once;
\* and a press of 200 ms or more has not toggled it through the pointer
\* handler
C14_ControlsDoNotTapToggle ==
  pointer.phase = "done" =>
    LET quick == pointer.heldMs < 200
        control == pointer.target.control
    IN /\ quick /\ control = "toggle" =>
            /\ pointer.toggles = 1
            /\ pointer.byClick = 1
            /\ pointer.byPointer = 0
            /\ treeState = toggled(pointer.downMode)
       /\ quick /\ control \in {"input", "send"} =>
            /\ pointer.toggles = 0
            /\ treeState = pointer.downMode
       /\ quick /\ control = "none" =>
            /\ pointer.toggles = 1
            /\ treeState = toggled(pointer.downMode)
       /\ ~quick => pointer.byPointer = 0

\* C15: after a frame in TextShape every glass-flake (typeId 2) and blue-
\* ornament (typeId 3) slot holds scale 0 and every shard and dust slot holds
\* baseScale x shimmer x (0.5 + 0.5 x explodeFactor); after a frame in any
\* other Mode every slot holds baseScale x shimmer, which for a glass flake
\* is its baseScale
C15_WrittenScale ==
  (frame.n > 0 /\ ~frame.error) =>
    \A g \in Groups : \A i \in DOMAIN meshes[g] :
      LET p == particles[indices[g][i]]
          written == meshes[g][i].scale
          shimmer == shimmerOf(p, frame.time)
      IN IF frame.mode = TEXT_SHAPE
         THEN IF p.typeId \in {2, 3}
              THEN written = 0
              ELSE written = mul(mul(p.scale, shimmer), 500 + mul(500, frame.explodeFactor))
         ELSE /\ written = mul(p.scale, shimmer)
              /\ p.typeId = 2 => written = p.scale

\* A TextShape frame, the camera between explodeEnd and explodeStart, that
\* hid a glass flake or blue ornament and wrote a shard or dust particle at
\* a multiplier strictly between 0.5 and 1
C15_Witness ==
  /\ frame.n > 0
  /\ ~frame.error
  /\ frame.mode = TEXT_SHAPE
  /\ frame.explodeFactor > 0
  /\ frame.explodeFactor < One
  /\ \E g \in {"flake", "blue"} : \E i \in DOMAIN meshes[g] :
       meshes[g][i].scale = 0 /\ particles[indices[g][i]].scale > 0
  /\ \E g \in {"shard", "dust"} : \E i \in DOMAIN meshes[g] :
       /\ meshes[g][i].scale > 0
       /\ meshes[g][i].scale < mul(particles[indices[g][i]].scale, shimmerOf(particles[indices[g][i]], frame.time))

\* C16: the scale a wish cluster is drawn at is 10t for t < 0.1, 1 for
\* 0.1 <= t <= 0.9 and 10(1 - t) for t > 0.9: 0 at t = 0 and at t = 1,
\* always within [0, 1], and meeting the value 1 at t = 0.1 and t = 0.9
\* (as far below 1 as 10 times the distance of t from the plateau)
C16_FlightScale ==
  \A i \in DOMAIN flight :
    flight[i].rendered =>
      LET t == flight[i].t
          scale == flight[i].scale
      IN /\ t < 100 => scale = 10 * t
         /\ (100 <= t /\ t <= 900) => scale = One
         /\ t > 900 => scale = 10 * (One - t)
         /\ t = 0 => scale = 0
         /\ t = One => scale = 0
         /\ 0 <= scale /\ scale <= One
         /\ One - scale = 10 * (IF t < 100 THEN 100 - t ELSE IF t > 900 THEN t - 900 ELSE 0)

\* A frame on the closing ramp, drawn at a scale strictly between 0 and 1
C16_Witness ==
  \E i \in DOMAIN flight :
    /\ flight[i].rendered
    /\ flight[i].t > 900
    /\ flight[i].t < One
    /\ flight[i].scale > 0
    /\ flight[i].scale < One

\* Coordinate k of the target of particle p was the same in the last two
\* frames
HeldFixed(p, k) ==
  /\ frame.n >= 2
  /\ ~frame.error
  /\ frame.targets[p][k] = frame.prevTargets[p][k]

\* C17 as stated: while a particle's target is held fixed, every frame
\* brings each stored coordinate that is not on the target strictly nearer
\* to it (by the factor 0.96), so the particle rests nowhere but on its target
C17_ShrinksEveryFrame ==
  \A g \in Groups : \A i \in DOMAIN meshes[g] : \A k \in 1..3 :
    HeldFixed(indices[g][i], k) =>
      LET target == frame.targets[indices[g][i]][k]
          before == frame.before[g][i][k]
          after == meshes[g][i].position[k]
      IN before # target => Abs(after - target) < Abs(before - target)

\* C17, amended: while a particle's target is held fixed, each frame takes
\* the distance of a stored coordinate from the target to 0.96 times what it
\* was, to the nearest value the instance matrix stores; the distance never
\* grows; it shrinks strictly while 0.04 of it is more than half the stored
\* precision, and a coordinate rests off the target only within that range
C17_ShrinksUntilStoredPrecision ==
  \A g \in Groups : \A i \in DOMAIN meshes[g] : \A k \in 1..3 :
    HeldFixed(indices[g][i], k) =>
      LET target == frame.targets[indices[g][i]][k]
          before == frame.before[g][i][k]
          after == meshes[g][i].position[k]
      IN /\ 2 * Abs(One * (after - target) - 960 * (before - target)) <= One
         /\ Abs(after - target) <= Abs(before - target)
         /\ 2 * 40 * Abs(before - target) > One => Abs(after - target) < Abs(before - target)
         /\ (after = before /\ before # target) => 2 * 40 * Abs(before - target) <= One

\* A particle on its way to its scatterPosition, the target of every frame
\* so far, has come to rest off it
C17_Witness ==
  \E g \in Groups : \E i \in DOMAIN meshes[g] : \E k \in 1..3 :
    /\ HeldFixed(indices[g][i], k)
    /\ frame.mode = SCATTERED
    /\ frame.explodeFactor = 0
    /\ frame.targets[indices[g][i]][k] = particles[indices[g][i]].scatterPosition[k]
    /\ meshes[g][i].position[k] = frame.before[g][i][k]
    /\ meshes[g][i].position[k] # frame.targets[indices[g][i]][k]
    /\ particles[indices[g][i]].treePosition[k] # meshes[g][i].position[k]

\* The writes of the current frame to slot i of group g
WritesTo(g, i) ==
  {n \in DOMAIN pass.written : pass.written[n].group = g /\ pass.written[n].slot = i}

\* C18: in a frame, when a group's batch is marked dirty every slot of the
\* group has been written, exactly once and from particle indices[i]; no
\* slot is ever written twice in a frame; a pass writes only the slot it is
\* at in the group it is called for; a frame that returns normally has
\* written every slot of the four groups and marked all four dirty; and a
\* frame starts only when no frame is in progress
C18_WriteThenMarkDirty ==
  /\ [](/\ \A g \in pass.dirty : \A i \in DOMAIN indices[g] : Cardinality(WritesTo(g, i)) = 1
        /\ \A g \in Groups : \A i \in DOMAIN indices[g] : Cardinality(WritesTo(g, i)) <= 1
        /\ \A n \in DOMAIN pass.written :
             /\ pass.written[n].slot \in DOMAIN indices[pass.written[n].group]
             /\ pass.written[n].particle = indices[pass.written[n].group][pass.written[n].slot]
        /\ (pass.pc = "idle" /\ pass.n > 0 /\ ~pass.error) =>
             /\ pass.dirty = Groups
             /\ \A g \in Groups : \A i \in DOMAIN indices[g] : Cardinality(WritesTo(g, i)) = 1)
  /\ [][\A h \in Groups : \A j \in DOMAIN meshes[h] :
          meshes'[h][j] # meshes[h][j] =>
            /\ pass.pc = "loop"
            /\ h = PassGroups[pass.g]
            /\ j = pass.i
            /\ h \notin pass.dirty]_vars
  /\ [][(pass'.n # pass.n) => (pass.pc = "idle" /\ pass'.n = pass.n + 1)]_vars

\* In the middle of the second frame: one group's slots are written and
\* its batch marked dirty, a later group's loop has a slot still to write
C18_Witness ==
  /\ pass.pc = "loop"
  /\ pass.n = 2
  /\ \E g \in pass.dirty : indices[g] # <<>> /\ Cardinality(WritesTo(g, 1)) = 1
  /\ pass.i = 1
  /\ pass.i <= Len(indices[PassGroups[pass.g]])
  /\ PassGroups[pass.g] \notin pass.dirty
====
